---- MODULE Spec2Model ----
(***************************************************************************)
(* The code-similarity retrieval engine of ChatTDD                         *)
(* (src/server/services/embeddings.ts): the chunker, the term-frequency    *)
(* vectorizer, the cosine scoring in its two variants, and the index with  *)
(* its remote backend and in-memory fallback.                              *)
(*                                                                         *)
(* Texts are sequences of one-character strings.  JavaScript numbers are   *)
(* modelled as exact rationals <<n, d>> (d > 0, lowest terms); a cosine    *)
(* score, which involves square roots, is kept as its sign and its square, *)
(* or as NaN / Infinity.  Floating-point rounding is not modelled.         *)
(***************************************************************************)
EXTENDS Integers, Sequences, FiniteSets, TLC

(***************************************************************************)
(* Sizes.  chunkSize, batchSize and dimension are 50, 10 and 3072 in the   *)
(* source (embeddings.ts:51, :107, :16); every operator below is           *)
(* parametric in them and the model is checked at small values, so that    *)
(* files of several chunks and several batches, and texts with more than   *)
(* `dimension` distinct tokens, are within reach.                          *)
(***************************************************************************)
chunkSize == 2
batchSize == 2
dimension == 2
\* the longest input text, in lines
MaxLines == 5

NL == "\n"

\* the lines input texts are made of: empty, one word, two words with an
\* upper-case letter, and a line of non-word characters only
LineSamples == { <<>>, <<"a">>, <<"b", " ", "A">>, <<"+">> }

RECURSIVE Join(_, _)
\* Array.prototype.join: the elements of parts with sep between them
Join(parts, sep) ==
  IF Len(parts) = 0 THEN <<>>
  ELSE IF Len(parts) = 1 THEN parts[1]
  ELSE parts[1] \o sep \o Join(Tail(parts), sep)

RECURSIVE SeqsUpTo(_, _)
\* the non-empty sequences over S of length at most n
SeqsUpTo(S, n) ==
  IF n = 0 THEN {}
  ELSE LET shorter == SeqsUpTo(S, n - 1)
       IN  { <<x>> : x \in S } \cup shorter
             \cup { Append(s, x) : s \in { t \in shorter : Len(t) = n - 1 }, x \in S }

\* the input texts: up to MaxLines lines joined by newlines ("" is the text
\* of one empty line)
Texts == { Join(ls, <<NL>>) : ls \in SeqsUpTo(LineSamples, MaxLines) }

(***************************************************************************)
(* Exact arithmetic on rationals <<n, d>>.                                 *)
(***************************************************************************)
Abs(n) == IF n < 0 THEN -n ELSE n

RECURSIVE GCD(_, _)
GCD(a, b) == IF b = 0 THEN a ELSE GCD(b, a % b)

Rat(n, d) ==
  LET g == GCD(Abs(n), d) IN <<n \div g, d \div g>>

Zero == <<0, 1>>

RatAdd(p, q) == Rat(p[1] * q[2] + q[1] * p[2], p[2] * q[2])
RatMul(p, q) == Rat(p[1] * q[1], p[2] * q[2])
RatLess(p, q) == p[1] * q[2] < q[1] * p[2]

(***************************************************************************)
(* splitIntoChunks                                                         *)
(***************************************************************************)
RECURSIVE SplitOnDropEmpty(_, _, _, _)
\* a split that drops the empty segments between two separators
SplitOnDropEmpty(s, i, cur, acc) ==
  IF i > Len(s) THEN Append(acc, cur)
  ELSE IF s[i] = NL
       THEN SplitOnDropEmpty(s, i + 1, <<>>, IF cur = <<>> THEN acc ELSE Append(acc, cur))
       ELSE SplitOnDropEmpty(s, i + 1, Append(cur, s[i]), acc)

RECURSIVE SplitOn(_, _, _, _)
\* String.prototype.split(sep) for a one-character separator: scanning from
\* position i with the current segment cur and the finished segments acc
SplitOn(s, i, cur, acc) ==
  IF i > Len(s) THEN Append(acc, cur)
  ELSE IF s[i] = NL THEN SplitOn(s, i + 1, <<>>, Append(acc, cur))
  ELSE SplitOn(s, i + 1, Append(cur, s[i]), acc)

SplitLines(code) == SplitOn(code, 1, <<>>, <<>>)

Min(a, b) == IF a < b THEN a ELSE b

\* Array.prototype.slice(from, to) with 0-based from and exclusive to
Slice(xs, from, to) == SubSeq(xs, from + 1, Min(to, Len(xs)))

RECURSIVE ChunkLoopNoClamp(_, _, _, _)
\* the loop with endLine not clamped to the number of lines
ChunkLoopNoClamp(lines, fileId, i, chunks) ==
  IF ~(i < Len(lines)) THEN chunks
  ELSE ChunkLoopNoClamp(lines, fileId, i + chunkSize,
         Append(chunks,
           [ fileId    |-> fileId,
             content   |-> Join(Slice(lines, i, i + chunkSize), <<NL>>),
             startLine |-> i + 1,
             endLine   |-> i + chunkSize ]))

RECURSIVE ChunkLoop(_, _, _, _)
\* the for loop of splitIntoChunks, at index i with the chunks pushed so far
ChunkLoop(lines, fileId, i, chunks) ==
  IF ~(i < Len(lines)) THEN chunks
  ELSE ChunkLoop(lines, fileId, i + chunkSize,
         Append(chunks,
           [ fileId    |-> fileId,
             content   |-> Join(Slice(lines, i, i + chunkSize), <<NL>>),
             startLine |-> i + 1,
             endLine   |-> Min(i + chunkSize, Len(lines)) ]))

splitIntoChunks(code, fileId) == ChunkLoop(SplitLines(code), fileId, 0, <<>>)

(***************************************************************************)
(* generateSimpleEmbedding                                                 *)
(***************************************************************************)
\* \w of the regular expression, on the characters of the model
IsWordChar(c) == c \in {"a", "b", "A", "B"}

\* String.prototype.toLowerCase, per character
LowerChar(c) == IF c = "A" THEN "a" ELSE IF c = "B" THEN "b" ELSE c
toLowerCase(s) == [ i \in 1..Len(s) |-> LowerChar(s[i]) ]

RECURSIVE SplitNonWord(_, _, _, _, _)
\* String.prototype.split(/\W+/): a maximal run of non-word characters is one
\* separator; a run at the start or at the end leaves an empty token there
SplitNonWord(s, i, cur, inSep, acc) ==
  IF i > Len(s) THEN Append(acc, cur)
  ELSE IF IsWordChar(s[i]) THEN SplitNonWord(s, i + 1, Append(cur, s[i]), FALSE, acc)
  ELSE IF inSep THEN SplitNonWord(s, i + 1, cur, TRUE, acc)
  ELSE SplitNonWord(s, i + 1, <<>>, TRUE, Append(acc, cur))

Words(text) == SplitNonWord(toLowerCase(text), 1, <<>>, FALSE, <<>>)

\* freq.set(word, (freq.get(word) || 0) + 1) on a Map kept as the sequence of
\* its entries in insertion order
FreqSet(freq, word) ==
  IF \E j \in 1..Len(freq) : freq[j].word = word
  THEN [ j \in 1..Len(freq) |->
           IF freq[j].word = word
           THEN [ word |-> word, count |-> freq[j].count + 1 ]
           ELSE freq[j] ]
  ELSE Append(freq, [ word |-> word, count |-> 1 ])

RECURSIVE FreqOf(_, _)
\* words.forEach(...) from the empty Map
FreqOf(words, freq) ==
  IF Len(words) = 0 THEN freq
  ELSE FreqOf(Tail(words), FreqSet(freq, Head(words)))

RECURSIVE SumInts(_)
SumInts(xs) == IF Len(xs) = 0 THEN 0 ELSE Head(xs) + SumInts(Tail(xs))

\* Array(n).fill(0): a RangeError for a negative n
ZeroPadding(n) == [ i \in 1..n |-> Zero ]

\* the embedding of text, or the RangeError that Array(dimension - length)
\* raises when the text has more than `dimension` distinct tokens
generateSimpleEmbedding(text) ==
  LET freq       == FreqOf(Words(text), <<>>)
      values     == [ j \in 1..Len(freq) |-> freq[j].count ]
      sum        == SumInts(values)
      normalized == [ j \in 1..Len(values) |-> Rat(values[j], sum) ]
  IN  IF dimension - Len(normalized) < 0
      THEN [ ok |-> FALSE, values |-> <<>> ]
      ELSE [ ok |-> TRUE,
             values |-> Slice(normalized \o ZeroPadding(dimension - Len(normalized)),
                              0, dimension) ]

(***************************************************************************)
(* calculateSimilarity, in its two cosine variants.  A score is            *)
(* [kind |-> "num", ssq |-> q], the number whose sign is that of q and     *)
(* whose square is |q|, or [kind |-> "NaN"], or an infinity.               *)
(***************************************************************************)
Num(q) == [ kind |-> "num", ssq |-> q ]
NaN == [ kind |-> "NaN", ssq |-> Zero ]
Infinity(sign) == [ kind |-> IF sign > 0 THEN "+Infinity" ELSE "-Infinity", ssq |-> Zero ]

Sign(n) == IF n > 0 THEN 1 ELSE IF n < 0 THEN -1 ELSE 0

RECURSIVE DotLoop(_, _, _, _)
\* the accumulation loop: the sum of a[i] * b[i] for i from the given index
DotLoop(a, b, i, acc) ==
  IF i > Len(a) THEN acc
  ELSE DotLoop(a, b, i + 1, RatAdd(acc, RatMul(a[i], b[i])))

dotProduct(a, b) == DotLoop(a, b, 1, Zero)

\* dot / den for den = sqrt(norm1) * sqrt(norm2) > 0, by sign and square
Quotient(dot, norm1, norm2) ==
  LET n12 == RatMul(norm1, norm2)
      sq  == Rat(dot[1] * dot[1] * n12[2], dot[2] * dot[2] * n12[1])
  IN  Num(<<Sign(dot[1]) * sq[1], sq[2]>>)

\* lines 86-98: the denominator is replaced by 1 when it is 0
calculateSimilarity(a, b) ==
  LET dot   == dotProduct(a, b)
      norm1 == dotProduct(a, a)
      norm2 == dotProduct(b, b)
  IN  IF norm1[1] = 0 \/ norm2[1] = 0
      THEN Num(<<Sign(dot[1]) * dot[1] * dot[1], dot[2] * dot[2]>>)
      ELSE Quotient(dot, norm1, norm2)

\* lines 304-316 (the model-embedding variant): a plain division
calculateSimilarityModel(a, b) ==
  LET dot   == dotProduct(a, b)
      norm1 == dotProduct(a, a)
      norm2 == dotProduct(b, b)
  IN  IF norm1[1] = 0 \/ norm2[1] = 0
      THEN IF dot[1] = 0 THEN NaN ELSE Infinity(dot[1])
      ELSE Quotient(dot, norm1, norm2)

\* new Set(text.toLowerCase().split(/\W+/)) (lines 442-443)
WordSet(text) == { Words(text)[j] : j \in 1..Len(Words(text)) }

\* calculateSimilarity(text1, text2) of the set-overlap variant (lines
\* 441-450): intersection.size / Math.sqrt(words1.size * words2.size), kept
\* as its square
calculateSimilarityOverlap(text1, text2) ==
  LET words1 == WordSet(text1)
      words2 == WordSet(text2)
      intersection == { x \in words1 : x \in words2 }
  IN  IF Cardinality(words1) = 0 \/ Cardinality(words2) = 0 THEN Num(Zero)
      ELSE Num(Rat(Cardinality(intersection) * Cardinality(intersection),
                   Cardinality(words1) * Cardinality(words2)))

(***************************************************************************)
(* The index: the in-memory list, the remote store and the handlers.       *)
(***************************************************************************)
\* the largest k of a query, and the number of addToIndex calls of a run
MaxK == 2
MaxAdds == 2

FileIds == { 1, 2 }

\* file contents: one word; non-word characters only; empty; three chunks in
\* two batches; three chunks whose last one has more than `dimension` distinct
\* tokens
OneWord == <<"a">>
NoWord == <<"+">>
EmptyText == <<>>
TwoWords == <<"b", " ", "A">>
ManyLines == Join(<< <<"a">>, <<"b", " ", "A">>, <<"a">>, <<"a">>, <<"+">> >>, <<NL>>)
LateOverflow ==
  Join(<< <<"a">>, <<"a">>, <<"a">>, <<"a">>, <<"b", " ", "A">>, <<"+">> >>, <<NL>>)

File(id, content) == [ id |-> id, content |-> content ]

\* the files given to addToIndex: two ids, one of them also with a second content
Files ==
  { File(1, OneWord), File(2, NoWord), File(2, EmptyText),
    File(1, ManyLines), File(2, LateOverflow) }

\* the query texts
Queries == { NoWord, TwoWords, LateOverflow }

\* the texts a text is compared with
PairTexts == { EmptyText, NoWord, OneWord, TwoWords }

\* a stored chunk: { ...chunk, embedding }
WithEmbedding(chunk, embedding) ==
  [ fileId |-> chunk.fileId, content |-> chunk.content,
    startLine |-> chunk.startLine, endLine |-> chunk.endLine,
    embedding |-> embedding ]

\* the vector under the id of the chunk's position within its batch
VectorOfBatchOffset(fileId, p, chunk, embedding) ==
  [ id |-> <<fileId, p % batchSize>>,
    values |-> embedding,
    metadata |-> [ fileId |-> chunk.fileId, content |-> chunk.content,
                   startLine |-> chunk.startLine, endLine |-> chunk.endLine ] ]

\* the vector of the chunk at 0-based position p of the file (lines 116-125)
VectorOf(fileId, p, chunk, embedding) ==
  [ id |-> <<fileId, p>>,
    values |-> embedding,
    metadata |-> [ fileId |-> chunk.fileId, content |-> chunk.content,
                   startLine |-> chunk.startLine, endLine |-> chunk.endLine ] ]

\* index.upsert(vectors) when it succeeds: a vector replaces the stored one of
\* the same id
Upsert(store, vectors) ==
  { r \in store : \A j \in 1..Len(vectors) : vectors[j].id # r.id }
    \cup { vectors[j] : j \in 1..Len(vectors) }

NumBatches(chunks) == (Len(chunks) + batchSize - 1) \div batchSize

\* a call made to the remote backend: "upsert" (with the ids of its vectors),
\* "query" or "deleteAll", and whether it resolved
RemoteCall(op, ids, ok) == [ op |-> op, ids |-> ids, ok |-> ok ]

\* const batch = chunks.slice(i, i + batchSize) (line 110)
BatchAt(chunks, i) == Slice(chunks, i, i + batchSize)

\* the upsert that raised made once more before the loop is left
UpsertRaisedRetried(store, calls, ids) ==
  [ store |-> store, raised |-> TRUE, upsertFailed |-> TRUE,
    calls |-> calls \o << RemoteCall("upsert", ids, FALSE),
                          RemoteCall("upsert", ids, FALSE) >> ]

\* await index.upsert(vectors) raises (line 128): the loop is left for the
\* catch block, nothing stored by this upsert
UpsertRaised(store, calls, ids) ==
  [ store |-> store, raised |-> TRUE, upsertFailed |-> TRUE,
    calls |-> Append(calls, RemoteCall("upsert", ids, FALSE)) ]

RECURSIVE RemoteLoop(_, _, _, _, _, _)
\* the batch loop of addToIndex (lines 109-130) from 0-based chunk index i: the
\* batch is vectorized (Promise.all rejects if one vectorization raises), then
\* upserted; the upsert of batch number failAt raises (0: none does); calls are
\* the upserts made so far
RemoteLoop(chunks, fileId, i, failAt, store, calls) ==
  IF ~(i < Len(chunks))
  THEN [ store |-> store, raised |-> FALSE, upsertFailed |-> FALSE, calls |-> calls ]
  ELSE LET batch == BatchAt(chunks, i)
           embs  == [ idx \in 1..Len(batch) |-> generateSimpleEmbedding(batch[idx].content) ]
           vectors == [ idx \in 1..Len(batch) |->
                          VectorOf(fileId, i + idx - 1, batch[idx], embs[idx].values) ]
           ids == [ idx \in 1..Len(batch) |-> vectors[idx].id ]
       IN  IF \E idx \in 1..Len(batch) : ~embs[idx].ok
           THEN [ store |-> store, raised |-> TRUE, upsertFailed |-> FALSE,
                  calls |-> calls ]
           ELSE IF (i \div batchSize) + 1 = failAt
           THEN UpsertRaised(store, calls, ids)
           ELSE RemoteLoop(chunks, fileId, i + batchSize, failAt,
                           Upsert(store, vectors),
                           Append(calls, RemoteCall("upsert", ids, TRUE)))

RECURSIVE LocalLoop(_, _, _)
\* for (const chunk of chunks) { embed; push } (lines 134-137 and 145-148) from
\* the j-th chunk on: stops where a vectorization raises
LocalLoop(chunks, j, local) ==
  IF j > Len(chunks) THEN [ local |-> local, raised |-> FALSE ]
  ELSE LET emb == generateSimpleEmbedding(chunks[j].content)
       IN  IF ~emb.ok THEN [ local |-> local, raised |-> TRUE ]
           ELSE LocalLoop(chunks, j + 1, Append(local, WithEmbedding(chunks[j], emb.values)))

\* the catch block of addToIndex with the exception rethrown instead of the
\* local fallback (as the handler at lines 364-367 does)
AddCatchRethrow(file, local) == [ local |-> local, raised |-> TRUE ]

\* the catch block of addToIndex (lines 141-149): the file is chunked again and
\* every chunk goes to the in-memory list
AddCatch(file, local) ==
  LocalLoop(splitIntoChunks(file.content, file.id), 1, local)

\* the handle taken to be set whatever it is
UseRemoteAlways(handle) == TRUE

\* if (this.pinecone) (lines 104, 156, 203)
UseRemote(handle) == handle

\* addToIndex(file) with the handle set or not, on the given list and store:
\* the list and the store afterwards, the remote calls made and how the call
\* ended
addToIndex(file, handle, failAt, local, store) ==
  LET chunks == splitIntoChunks(file.content, file.id)
      viaRemote == RemoteLoop(chunks, file.id, 0, failAt, store, <<>>)
      viaLocal  == LocalLoop(chunks, 1, local)
      tryRaised == IF UseRemote(handle) THEN viaRemote.raised ELSE viaLocal.raised
      tryLocal  == IF UseRemote(handle) THEN local ELSE viaLocal.local
      tryStore  == IF UseRemote(handle) THEN viaRemote.store ELSE store
      caught    == AddCatch(file, tryLocal)
  IN  [ local        |-> IF tryRaised THEN caught.local ELSE tryLocal,
        store        |-> tryStore,
        calls        |-> IF UseRemote(handle) THEN viaRemote.calls ELSE <<>>,
        upsertFailed |-> UseRemote(handle) /\ viaRemote.upsertFailed,
        fellBack     |-> tryRaised,
        outcome      |-> IF tryRaised /\ caught.raised THEN "raised" ELSE "ok" ]

\* a result of findSimilarCode
Hit(fileId, content, similarity) ==
  [ fileId |-> fileId, content |-> content, similarity |-> similarity ]

\* the comparator with its operands swapped, a.similarity - b.similarity:
\* ascending order
SortsBeforeAscending(a, b) == RatLess(a.similarity.ssq, b.similarity.ssq)

\* the comparator (a, b) => b.similarity - a.similarity is negative: a sorts
\* before b
SortsBefore(a, b) == RatLess(b.similarity.ssq, a.similarity.ssq)

\* x put into the sorted sequence before the first element it sorts before
Insert(sorted, x) ==
  LET before == { j \in 1..Len(sorted) : SortsBefore(x, sorted[j]) }
      at == IF before = {} THEN Len(sorted) + 1
            ELSE CHOOSE j \in before : \A h \in before : j <= h
  IN  SubSeq(sorted, 1, at - 1) \o <<x>> \o SubSeq(sorted, at, Len(sorted))

RECURSIVE SortFrom(_, _, _)
\* Array.prototype.sort with that comparator: a stable sort
SortFrom(xs, j, sorted) ==
  IF j > Len(xs) THEN sorted ELSE SortFrom(xs, j + 1, Insert(sorted, xs[j]))

Sort(xs) == SortFrom(xs, 1, <<>>)

RECURSIVE KeepFirstPerFile(_, _, _)
\* the hits from the j-th on whose fileId no earlier hit has
KeepFirstPerFile(hits, j, kept) ==
  IF j > Len(hits) THEN kept
  ELSE KeepFirstPerFile(hits, j + 1,
         IF \E h \in 1..Len(kept) : kept[h].fileId = hits[j].fileId
         THEN kept ELSE Append(kept, hits[j]))

\* the local similarity search with at most one result per file
LocalScanDeduped(queryEmbedding, local, k) ==
  LET similarities ==
        [ j \in 1..Len(local) |->
            Hit(local[j].fileId, local[j].content,
                calculateSimilarity(queryEmbedding, local[j].embedding)) ]
  IN  Slice(KeepFirstPerFile(Sort(similarities), 1, <<>>), 0, k)

\* the local similarity search (lines 178-193)
LocalScan(queryEmbedding, local, k) ==
  LET similarities ==
        [ j \in 1..Len(local) |->
            Hit(local[j].fileId, local[j].content,
                calculateSimilarity(queryEmbedding, local[j].embedding)) ]
  IN  Slice(Sort(similarities), 0, k)

\* the stored vectors as a sequence, in the order of their ids
RECURSIVE InIdOrder(_)
InIdOrder(store) ==
  IF store = {} THEN <<>>
  ELSE LET first == CHOOSE r \in store :
                      \A o \in store :
                        \/ r.id[1] < o.id[1]
                        \/ r.id[1] = o.id[1] /\ r.id[2] <= o.id[2]
       IN  <<first>> \o InIdOrder(store \ {first})

\* what index.query answers for topK = k when it answers with matches (lines
\* 159-171): the k best stored vectors by the backend's score, taken to be the
\* cosine of the query and the stored values
RemoteMatches(queryEmbedding, store, k) ==
  LET stored == InIdOrder(store)
      scored == [ j \in 1..Len(stored) |->
                    Hit(stored[j].metadata.fileId, stored[j].metadata.content,
                        calculateSimilarity(queryEmbedding, stored[j].values)) ]
  IN  Slice(Sort(scored), 0, k)

(***************************************************************************)
(* State.                                                                  *)
(***************************************************************************)
VARIABLES
  pc,        \* "text" / "texts" / "vectors": the input drawn; then the function applied
  text,      \* the input text
  text2,     \* the text it is compared with
  chunksOut, \* the result of splitIntoChunks
  embOut,    \* the result of generateSimpleEmbedding
  v1, v2,    \* the input vectors
  simOut     \* the results of the calculateSimilarity variants

VARIABLES
  pinecone,    \* this.pinecone is set
  handshake,   \* "absent": no API key; "pending": listIndexes in flight;
               \* "connected" / "failed": how it ended
  localChunks, \* this.localChunks
  remote,      \* the vectors the remote index holds
  adds,        \* the number of addToIndex calls made
  cleared,     \* since the last clear() with no addToIndex after it: how that
               \* clear went and whether the index held anything
  preceding,   \* the call that returned last, if it was an addToIndex
  last         \* the call that has completed and not yet returned to its caller

VARIABLES
  addTask,     \* the addToIndex in flight: where it is suspended ("local" /
               \* "catch": awaiting the vector of chunk j in that loop), its
               \* file and the entries it has pushed so far
  clearTask    \* the clear() in flight: "deleting" while it awaits deleteAll

VARIABLES
  codeFiles,    \* storage: the stored files; the file with id n is the n-th
                \* (currentId.codeFiles is the number of files plus one)
  fileNameToId, \* storage: the id found under a file name (0: none)
  fileVersions, \* the file watcher's map from a file name to the hash last
                \* processed ("none": no entry)
  handlers,     \* the 'message' callbacks of the file watcher: where each is
                \* suspended, its update and what it has read and written
  events,       \* what the file watcher has done so far: storage writes,
                \* addToIndex calls and broadcasts, in order
  exchange      \* the HTTP request handled last and its response

pureVars == <<pc, text, text2, chunksOut, embOut, v1, v2, simOut>>
serviceVars ==
  <<pinecone, handshake, localChunks, remote, adds, cleared, preceding, last>>
raceVars == <<addTask, clearTask>>
appVars == <<codeFiles, fileNameToId, fileVersions, handlers, events, exchange>>
vars == <<pureVars, serviceVars, raceVars, appVars>>

\* entries of the input vectors
TestEntries == { <<-1, 1>>, Zero, <<1, 2>> }
TestVectors == [ 1..dimension -> TestEntries ]
ZeroVector == [ i \in 1..dimension |-> Zero ]

NoEmbedding == [ ok |-> FALSE, values |-> <<>> ]
NoScores == [ simple |-> NaN, model |-> NaN, overlap |-> NaN ]

NoFile == [ id |-> 0, content |-> <<>> ]
NoAdd == [ file |-> NoFile, upsertFailed |-> FALSE ]
NoCall ==
  [ op |-> "none", file |-> NoFile, query |-> <<>>, k |-> 0, path |-> "none",
    calls |-> <<>>, outcome |-> "ok", upsertFailed |-> FALSE, fellBack |-> FALSE,
    result |-> <<>>,
    localBefore |-> <<>>, remoteBefore |-> {}, after |-> NoAdd ]
NotCleared == [ by |-> "none", populated |-> FALSE ]

\* no function is being applied
PureIdle ==
  /\ pc = "idle" /\ text = <<>> /\ text2 = <<>> /\ chunksOut = <<>>
  /\ embOut = NoEmbedding
  /\ v1 = <<>> /\ v2 = <<>> /\ simOut = NoScores

NoTask == [ at |-> "idle", file |-> NoFile, j |-> 0, appended |-> <<>> ]

\* no call is in flight
RaceIdle == addTask = NoTask /\ clearTask = "idle"

FileNames == { "f", "g" }

NoStored == [ id |-> 0, name |-> "", content |-> <<>>, hash |-> "", version |-> 0 ]
NoUpdate == [ name |-> "", content |-> <<>>, hash |-> "" ]
NoExchange ==
  [ route |-> "none", valid |-> FALSE, body |-> NoUpdate, fileIds |-> <<>>,
    prompt |-> <<>>, indexing |-> "none", status |-> 0, file |-> NoStored,
    similarCode |-> <<>> ]

\* the application around the engine is not in use
AppIdle ==
  /\ codeFiles = <<>>
  /\ fileNameToId = [ name \in FileNames |-> 0 ]
  /\ fileVersions = [ name \in FileNames |-> "none" ]
  /\ handlers = <<>>
  /\ events = <<>>
  /\ exchange = NoExchange

\* the engine is not in use
ServiceIdle ==
  /\ pinecone = FALSE /\ handshake = "absent" /\ localChunks = <<>> /\ remote = {}
  /\ adds = 0 /\ cleared = NotCleared /\ preceding = NoAdd /\ last = NoCall

(***************************************************************************)
(* The functions on their own: an input is drawn, then a function is       *)
(* applied to it.                                                          *)
(***************************************************************************)
PureInit ==
  /\ ServiceIdle
  /\ RaceIdle
  /\ AppIdle
  /\ chunksOut = <<>>
  /\ embOut = NoEmbedding
  /\ simOut = NoScores
  /\ \/ pc = "text" /\ text \in Texts /\ text2 = <<>> /\ v1 = <<>> /\ v2 = <<>>
     \/ pc = "texts" /\ text \in Texts /\ text2 \in PairTexts /\ v1 = <<>> /\ v2 = <<>>
     \/ /\ pc = "vectors" /\ text = <<>> /\ text2 = <<>>
        /\ v1 \in TestVectors /\ v2 \in TestVectors

Split ==
  /\ pc = "text"
  /\ pc' = "split"
  /\ \E fileId \in FileIds : chunksOut' = splitIntoChunks(text, fileId)
  /\ UNCHANGED <<text, text2, embOut, v1, v2, simOut, serviceVars, raceVars, appVars>>

Embed ==
  /\ pc = "text"
  /\ pc' = "embedded"
  /\ embOut' = generateSimpleEmbedding(text)
  /\ UNCHANGED <<text, text2, chunksOut, v1, v2, simOut, serviceVars, raceVars, appVars>>

Score ==
  /\ pc = "vectors"
  /\ pc' = "scored"
  /\ simOut' = [ NoScores EXCEPT
                   !.simple = calculateSimilarity(v1, v2),
                   !.model  = calculateSimilarityModel(v1, v2) ]
  /\ UNCHANGED <<text, text2, chunksOut, embOut, v1, v2, serviceVars, raceVars, appVars>>

Overlap ==
  /\ pc = "texts"
  /\ pc' = "overlapped"
  /\ simOut' = [ NoScores EXCEPT !.overlap = calculateSimilarityOverlap(text, text2) ]
  /\ UNCHANGED <<text, text2, chunksOut, embOut, v1, v2, serviceVars, raceVars, appVars>>

PureNext == Split \/ Embed \/ Score \/ Overlap

SpecPure == PureInit /\ [][PureNext]_vars

(***************************************************************************)
(* The service: the engine from its construction on, every call awaited    *)
(* before the next one is made.                                            *)
(***************************************************************************)
\* the constructor (lines 19-47) up to its first await: without an API key the
\* handle stays null; with one it is set and listIndexes is in flight, unless
\* the client's construction raised
Init ==
  /\ PureIdle
  /\ RaceIdle
  /\ AppIdle
  /\ localChunks = <<>>
  /\ remote = {}
  /\ adds = 0
  /\ cleared = NotCleared
  /\ preceding = NoAdd
  /\ last = NoCall
  /\ \/ pinecone = FALSE /\ handshake = "absent"
     \/ pinecone = TRUE /\ handshake = "pending"
     \/ pinecone = FALSE /\ handshake = "failed"

\* listIndexes resolves (line 41)
HandshakeOk ==
  /\ handshake = "pending"
  /\ handshake' = "connected"
  /\ UNCHANGED <<pinecone, localChunks, remote, adds, cleared, preceding, last, pureVars, raceVars, appVars>>

\* listIndexes rejects (lines 43-46)
HandshakeFail ==
  /\ handshake = "pending"
  /\ handshake' = "failed"
  /\ pinecone' = FALSE
  /\ UNCHANGED <<localChunks, remote, adds, cleared, preceding, last, pureVars, raceVars, appVars>>

\* addToIndex(file) from call to completion
AddToIndex ==
  /\ last.op = "none"
  /\ adds < MaxAdds
  /\ \E file \in Files :
       \E failAt \in 0..(IF UseRemote(pinecone)
                         THEN NumBatches(splitIntoChunks(file.content, file.id))
                         ELSE 0) :
         LET r == addToIndex(file, pinecone, failAt, localChunks, remote)
         IN  /\ localChunks' = r.local
             /\ remote' = r.store
             /\ last' = [ NoCall EXCEPT
                            !.op = "add", !.file = file,
                            !.path = IF UseRemote(pinecone) THEN "remote" ELSE "local",
                            !.calls = r.calls,
                            !.outcome = r.outcome,
                            !.upsertFailed = r.upsertFailed,
                            !.fellBack = r.fellBack,
                            !.localBefore = localChunks,
                            !.remoteBefore = remote ]
             /\ preceding' = [ file |-> file, upsertFailed |-> r.upsertFailed ]
  /\ adds' = adds + 1
  /\ cleared' = NotCleared
  /\ UNCHANGED <<pinecone, handshake, pureVars, raceVars, appVars>>

\* the outer catch of findSimilarCode with the exception rethrown (as the
\* handler at lines 403-406 does)
FindCatchRethrow == [ outcome |-> "raised", result |-> <<>> ]

\* the outer catch of findSimilarCode (lines 195-198): return []
FindCatch == [ outcome |-> "ok", result |-> <<>> ]

FindDone(query, k, path, calls, outcome, result) ==
  /\ last' = [ NoCall EXCEPT
                 !.op = "find", !.query = query, !.k = k, !.path = path,
                 !.calls = calls, !.outcome = outcome, !.result = result,
                 !.localBefore = localChunks, !.remoteBefore = remote,
                 !.after = preceding ]
  /\ preceding' = NoAdd
  /\ UNCHANGED <<pinecone, handshake, localChunks, remote, adds, cleared, pureVars, raceVars, appVars>>

\* findSimilarCode(query, k) from call to completion
FindSimilarCode ==
  /\ last.op = "none"
  /\ \E query \in Queries, k \in 0..MaxK :
    LET q == generateSimpleEmbedding(query)
        asked(ok) == << RemoteCall("query", <<>>, ok) >>
    IN  IF ~q.ok
        THEN \* the vectorization raised: the outer catch (lines 195-198)
             FindDone(query, k, "error", <<>>, FindCatch.outcome, FindCatch.result)
        ELSE \/ /\ UseRemote(pinecone)
                /\ \/ \* the query answers without matches (line 165)
                      FindDone(query, k, "remote", asked(TRUE), "ok", <<>>)
                   \/ \* the query answers (lines 167-171)
                      FindDone(query, k, "remote", asked(TRUE), "ok",
                               RemoteMatches(q.values, remote, k))
                   \/ \* the query raises: the local search (lines 172-175)
                      FindDone(query, k, "fallback", asked(FALSE), "ok",
                               LocalScan(q.values, localChunks, k))
             \/ /\ ~UseRemote(pinecone)
                /\ FindDone(query, k, "local", <<>>, "ok",
                            LocalScan(q.values, localChunks, k))

ClearDone(by, calls) ==
  /\ localChunks' = <<>>
  /\ cleared' = [ by |-> by, populated |-> localChunks # <<>> \/ remote # {} ]
  /\ last' = [ NoCall EXCEPT !.op = "clear", !.path = by, !.calls = calls ]
  /\ preceding' = NoAdd
  /\ UNCHANGED <<pinecone, handshake, adds, pureVars, raceVars, appVars>>

\* clear() from call to completion (lines 201-213)
Clear ==
  /\ last.op = "none"
  /\ \/ /\ ~UseRemote(pinecone)
        /\ remote' = remote
        /\ ClearDone("noRemote", <<>>)
     \/ /\ UseRemote(pinecone)
        /\ remote' = {}
        /\ ClearDone("deleteOk", << RemoteCall("deleteAll", <<>>, TRUE) >>)
     \/ /\ UseRemote(pinecone)
        /\ remote' = remote
        /\ ClearDone("deleteFailed", << RemoteCall("deleteAll", <<>>, FALSE) >>)

\* the completed call returns to its caller, which may then make the next one
Return ==
  /\ last.op # "none"
  /\ last' = NoCall
  /\ UNCHANGED <<pinecone, handshake, localChunks, remote, adds, cleared, preceding, pureVars, raceVars, appVars>>

Next ==
  HandshakeOk \/ HandshakeFail \/ AddToIndex \/ FindSimilarCode \/ Clear \/ Return

Spec == Init /\ [][Next]_vars

(***************************************************************************)
(* One addToIndex and one clear() in flight together: each call runs up to *)
(* its next await, where the other may run.  The batch loop of addToIndex, *)
(* which does not touch the in-memory list, is taken as one step.          *)
(***************************************************************************)
\* the reset leaving the first entry in the list
ResetKeepingFirst(local) == IF local = <<>> THEN <<>> ELSE <<local[1]>>

\* this.localChunks = [] (lines 206 and 211)
Reset(local) == <<>>

\* the engine with the handle null (no API key) or set, both stores empty, no
\* call made yet
RaceInit ==
  /\ PureIdle
  /\ RaceIdle
  /\ AppIdle
  /\ localChunks = <<>>
  /\ remote = {}
  /\ adds = 0
  /\ cleared = NotCleared
  /\ preceding = NoAdd
  /\ last = NoCall
  /\ \/ pinecone = FALSE /\ handshake = "absent"
     \/ pinecone = TRUE /\ handshake = "connected"

\* addToIndex(file) is called and runs to its first await in a local loop:
\* with the handle set the batch loop runs first and leads to the catch block
\* if it raised, to completion if not (lines 101-130); without it the local
\* loop is entered (lines 131-135)
AddCall ==
  /\ addTask.at = "idle"
  /\ \E file \in Files :
       LET chunks == splitIntoChunks(file.content, file.id)
       IN  IF UseRemote(pinecone)
           THEN \E failAt \in 0..NumBatches(chunks) :
                  LET r == RemoteLoop(chunks, file.id, 0, failAt, remote, <<>>)
                  IN  /\ remote' = r.store
                      /\ addTask' = [ NoTask EXCEPT
                                        !.at = IF r.raised THEN "catch" ELSE "done",
                                        !.file = file, !.j = 1 ]
           ELSE /\ remote' = remote
                /\ addTask' = [ NoTask EXCEPT !.at = "local", !.file = file, !.j = 1 ]
  /\ UNCHANGED <<pinecone, handshake, localChunks, adds, cleared, preceding, last,
                 clearTask, pureVars, appVars>>

\* the awaited vectorization of chunk j settles: the chunk is pushed and the
\* next one awaited (lines 135-136 and 146-147), or the exception leads from
\* the try block to the catch block and from the catch block out of the call
AddResume ==
  /\ addTask.at \in {"local", "catch"}
  /\ LET chunks == splitIntoChunks(addTask.file.content, addTask.file.id)
         chunk  == chunks[addTask.j]
         emb    == generateSimpleEmbedding(chunk.content)
         entry  == WithEmbedding(chunk, emb.values)
     IN  IF emb.ok
         THEN /\ localChunks' = Append(localChunks, entry)
              /\ addTask' = [ addTask EXCEPT
                                !.at = IF addTask.j = Len(chunks) THEN "done" ELSE @,
                                !.j = @ + 1,
                                !.appended = Append(@, entry) ]
         ELSE /\ localChunks' = localChunks
              /\ addTask' = [ addTask EXCEPT
                                !.at = IF @ = "local" THEN "catch" ELSE "raised",
                                !.j = 1 ]
  /\ UNCHANGED <<pinecone, handshake, remote, adds, cleared, preceding, last,
                 clearTask, pureVars, appVars>>

\* clear() is called: with the handle set it awaits deleteAll (line 205),
\* without it the list is reset at once (line 206)
ClearCall ==
  /\ clearTask = "idle"
  /\ IF UseRemote(pinecone)
     THEN /\ clearTask' = "deleting"
          /\ localChunks' = localChunks
     ELSE /\ clearTask' = "done"
          /\ localChunks' = Reset(localChunks)
  /\ UNCHANGED <<pinecone, handshake, remote, adds, cleared, preceding, last,
                 addTask, pureVars, appVars>>

\* deleteAll settles: resolved (line 206) or rejected (line 211), the list is
\* reset
ClearResume ==
  /\ clearTask = "deleting"
  /\ clearTask' = "done"
  /\ remote' = {} \/ remote' = remote
  /\ localChunks' = Reset(localChunks)
  /\ UNCHANGED <<pinecone, handshake, adds, cleared, preceding, last, addTask, pureVars, appVars>>

RaceNext == AddCall \/ AddResume \/ ClearCall \/ ClearResume

SpecRace == RaceInit /\ [][RaceNext]_vars

(***************************************************************************)
(* The storage (MemStorage) and the file watcher.  handleFileUpdate is an  *)
(* async function: it is suspended at each of its awaits, and the callback *)
(* of another message can run while it is.  One action below is one        *)
(* stretch of the handler between two awaits.                              *)
(***************************************************************************)
MaxMessages == 2

\* the updates a client sends: { name, content, hash }
Update(name, content, hash) == [ name |-> name, content |-> content, hash |-> hash ]

Updates ==
  { Update("f", OneWord, "h1"), Update("f", TwoWords, "h2"),
    Update("f", LateOverflow, "h3"), Update("g", OneWord, "h1") }

NoMessage == [ type |-> "none", fileId |-> 0, name |-> "", version |-> 0, hash |-> "" ]

StoredNamed(name, files) == { i \in 1..Len(files) : files[i].name = name }

\* getCodeFile: the file stored under an id
getCodeFile(id, files) == IF id \in 1..Len(files) THEN files[id] ELSE NoStored

\* findCodeFileByName: the file whose id the name map holds
findCodeFileByName(name, files, byName) ==
  IF byName[name] # 0 THEN getCodeFile(byName[name], files) ELSE NoStored

\* createCodeFile: the next id, version 1, and the name map points to it
createCodeFile(insert, files, byName) ==
  LET id == Len(files) + 1
      codeFile == [ id |-> id, name |-> insert.name, content |-> insert.content,
                    hash |-> insert.hash, version |-> 1 ]
  IN  [ codeFiles    |-> Append(files, codeFile),
        fileNameToId |-> [ byName EXCEPT ![insert.name] = id ],
        file         |-> codeFile ]

\* updateCodeFile after its await: the file it read, with the update's content
\* and hash and the version it read plus one
updatedFile(file, update) ==
  [ file EXCEPT !.content = update.content, !.hash = update.hash,
                !.version = file.version + 1 ]

Handler(update) ==
  [ pc |-> "received", update |-> update, seen |-> "none", alone |-> TRUE,
    existing |-> NoStored,
    file |-> NoStored, hadName |-> FALSE, previous |-> 0, wrote |-> FALSE,
    indexed |-> "no", sent |-> NoMessage ]

WatcherInit ==
  /\ PureIdle
  /\ RaceIdle
  /\ AppIdle
  /\ localChunks = <<>>
  /\ remote = {}
  /\ adds = 0
  /\ cleared = NotCleared
  /\ preceding = NoAdd
  /\ last = NoCall
  /\ \/ pinecone = FALSE /\ handshake = "absent"
     \/ pinecone = TRUE /\ handshake = "connected"

\* a message arrives: the hash check (lines 65-68) and the call of
\* findCodeFileByName, up to the await of line 71
Receive ==
  /\ Len(handlers) < MaxMessages
  /\ \E update \in Updates :
       LET currentHash == fileVersions[update.name]
           h == [ Handler(update) EXCEPT
                    !.seen = currentHash,
                    !.alone = \A m \in 1..Len(handlers) :
                                handlers[m].pc \in { "skipped", "failed", "done" } ]
       IN  handlers' =
             Append(handlers,
                    IF currentHash # update.hash
                    THEN [ h EXCEPT
                             !.pc = "found",
                             !.existing = findCodeFileByName(update.name, codeFiles,
                                                             fileNameToId) ]
                    ELSE [ h EXCEPT !.pc = "skipped" ])
  /\ UNCHANGED <<codeFiles, fileNameToId, fileVersions, events, exchange,
                 serviceVars, pureVars, raceVars>>

\* after the await of line 71: createCodeFile (lines 96-101), or the call of
\* updateCodeFile up to its await of getCodeFile (lines 75-79)
Write(n) ==
  /\ handlers[n].pc = "found"
  /\ LET h == handlers[n]
         facts == [ h EXCEPT
                      !.hadName = StoredNamed(h.update.name, codeFiles) # {},
                      !.previous = getCodeFile(h.existing.id, codeFiles).version ]
         made == createCodeFile(h.update, codeFiles, fileNameToId)
     IN  IF h.existing # NoStored
         THEN /\ handlers' = [ handlers EXCEPT
                                 ![n] = [ h EXCEPT
                                            !.pc = "updating",
                                            !.file = getCodeFile(h.existing.id,
                                                                 codeFiles) ] ]
              /\ UNCHANGED <<codeFiles, fileNameToId>>
         ELSE /\ codeFiles' = made.codeFiles
              /\ fileNameToId' = made.fileNameToId
              /\ handlers' = [ handlers EXCEPT
                                 ![n] = [ facts EXCEPT
                                            !.pc = "stored", !.file = made.file,
                                            !.wrote = TRUE ] ]
  /\ UNCHANGED <<fileVersions, events, exchange, serviceVars, pureVars, raceVars>>

\* updateCodeFile after its await: the write (lines 70-80 of the storage)
FinishUpdate(n) ==
  /\ handlers[n].pc = "updating"
  /\ LET h == handlers[n]
         written == updatedFile(h.file, h.update)
     IN  /\ codeFiles' = [ codeFiles EXCEPT ![h.file.id] = written ]
         /\ handlers' = [ handlers EXCEPT
                            ![n] = [ h EXCEPT
                                       !.pc = "stored", !.file = written,
                                       !.hadName =
                                         StoredNamed(h.update.name, codeFiles) # {},
                                       !.previous = codeFiles[h.file.id].version,
                                       !.wrote = TRUE ] ]
  /\ UNCHANGED <<fileNameToId, fileVersions, events, exchange, serviceVars,
                 pureVars, raceVars>>

\* addToIndex of the stored file (lines 82 and 103); when it raises, the
\* callback's catch logs the error and the handling ends (lines 53-55)
Index(n) ==
  /\ handlers[n].pc = "stored"
  /\ LET h == handlers[n]
         file == File(h.file.id, h.file.content)
     IN  \E failAt \in 0..(IF UseRemote(pinecone)
                           THEN NumBatches(splitIntoChunks(file.content, file.id))
                           ELSE 0) :
           LET r == addToIndex(file, pinecone, failAt, localChunks, remote)
           IN  /\ localChunks' = r.local
               /\ remote' = r.store
               /\ handlers' = [ handlers EXCEPT
                                  ![n] = [ h EXCEPT
                                             !.pc = IF r.outcome = "raised"
                                                    THEN "failed" ELSE "indexed",
                                             !.indexed = r.outcome ] ]
  /\ UNCHANGED <<pinecone, handshake, adds, cleared, preceding, last, codeFiles,
                 fileNameToId, fileVersions, events, exchange, pureVars, raceVars>>

\* the message of lines 85-93 (an existing file) or 105-113 (a new one)
MessageOf(h) ==
  [ type    |-> IF h.existing # NoStored THEN "FILE_UPDATED" ELSE "FILE_ADDED",
    fileId  |-> h.file.id,
    name    |-> h.update.name,
    version |-> IF h.existing # NoStored THEN h.file.version ELSE 1,
    hash    |-> h.update.hash ]

\* after the await of addToIndex: the broadcast, and the hash is remembered
\* (line 116)
Broadcast(n) ==
  /\ handlers[n].pc = "indexed"
  /\ LET h == handlers[n]
     IN  /\ events' = Append(events, MessageOf(h))
         /\ fileVersions' = [ fileVersions EXCEPT ![h.update.name] = h.update.hash ]
         /\ handlers' = [ handlers EXCEPT
                            ![n] = [ h EXCEPT !.pc = "done", !.sent = MessageOf(h) ] ]
  /\ UNCHANGED <<codeFiles, fileNameToId, exchange, serviceVars, pureVars, raceVars>>

WatcherNext ==
  \/ Receive
  \/ \E n \in 1..Len(handlers) : Write(n)
  \/ \E n \in 1..Len(handlers) : FinishUpdate(n)
  \/ \E n \in 1..Len(handlers) : Index(n)
  \/ \E n \in 1..Len(handlers) : Broadcast(n)

SpecWatcher == WatcherInit /\ [][WatcherNext]_vars

(***************************************************************************)
(* The HTTP routes that use the engine: POST /api/files and the context    *)
(* building of POST /api/deepseek/generate.  One action is one request.    *)
(***************************************************************************)
MaxFiles == 2
MAX_SIMILAR_CHUNKS == 3

\* the valid bodies of POST /api/files
Bodies ==
  { Update("f", OneWord, "h1"), Update("g", TwoWords, "h2"),
    Update("g", LateOverflow, "h3") }

\* req.body.fileIds of the generate route
RequestFileIds == { <<>>, <<1>>, <<2>>, <<1, 2>> }

\* addToIndex raised and nothing catches it before the route's outer catch
PostIndexRaisedUncaught(file) == [ status |-> 500, file |-> NoStored ]

\* addToIndex raised: the inner catch logs the error and the route goes on to
\* res.json(file) (lines 28-35)
PostIndexRaised(file) == [ status |-> 200, file |-> file ]

RoutesInit ==
  /\ PureIdle
  /\ RaceIdle
  /\ AppIdle
  /\ localChunks = <<>>
  /\ remote = {}
  /\ adds = 0
  /\ cleared = NotCleared
  /\ preceding = NoAdd
  /\ last = NoCall
  /\ \/ pinecone = FALSE /\ handshake = "absent"
     \/ pinecone = TRUE /\ handshake = "connected"

\* POST /api/files with a body the schema rejects: 400 (lines 20-23)
PostInvalid ==
  /\ exchange' = [ NoExchange EXCEPT !.route = "post", !.status = 400 ]
  /\ UNCHANGED <<codeFiles, fileNameToId, fileVersions, handlers, events,
                 serviceVars, pureVars, raceVars>>

\* POST /api/files with a valid body (lines 24-35)
PostFiles ==
  /\ Len(codeFiles) < MaxFiles
  /\ \E body \in Bodies :
       LET made == createCodeFile(body, codeFiles, fileNameToId)
           file == made.file
           toIndex == File(file.id, file.content)
       IN  \E failAt \in 0..(IF UseRemote(pinecone)
                             THEN NumBatches(splitIntoChunks(toIndex.content,
                                                             toIndex.id))
                             ELSE 0) :
             LET r == addToIndex(toIndex, pinecone, failAt, localChunks, remote)
                 response == IF r.outcome = "raised"
                             THEN PostIndexRaised(file)
                             ELSE [ status |-> 200, file |-> file ]
             IN  /\ codeFiles' = made.codeFiles
                 /\ fileNameToId' = made.fileNameToId
                 /\ localChunks' = r.local
                 /\ remote' = r.store
                 /\ exchange' = [ NoExchange EXCEPT
                                    !.route = "post", !.valid = TRUE, !.body = body,
                                    !.indexing = r.outcome,
                                    !.status = response.status,
                                    !.file = response.file ]
  /\ UNCHANGED <<pinecone, handshake, adds, cleared, preceding, last, fileVersions,
                 handlers, events, pureVars, raceVars>>

\* getFolderStructure(fileIds): a read-only projection that returns a text
\* and has no effect on the index
getFolderStructure(fileIds, local, store) == [ local |-> local, store |-> store ]

\* findSimilarCode(query, k): the result of one call; answers says whether
\* the remote query answers or raises
findSimilarCode(query, k, answers, handle, local, store) ==
  LET q == generateSimpleEmbedding(query)
  IN  IF ~q.ok THEN FindCatch.result
      ELSE IF UseRemote(handle) /\ answers THEN RemoteMatches(q.values, store, k)
      ELSE LocalScan(q.values, local, k)

RECURSIVE SimilarCodeLoop(_, _, _, _)
\* the loop over the files of the request (lines 226-233): the files that
\* are not stored are skipped, the results of the others are concatenated
SimilarCodeLoop(files, i, similar, similarCode) ==
  IF i > Len(files) THEN similarCode
  ELSE SimilarCodeLoop(files, i + 1, similar,
                       IF files[i] = NoStored THEN similarCode
                       ELSE similarCode \o similar)

\* POST /api/deepseek/generate: the context building (lines 212-249)
Generate ==
  /\ \E fileIds \in RequestFileIds, prompt \in Queries, answers \in BOOLEAN :
       LET structure == getFolderStructure(fileIds, localChunks, remote)
           files == [ i \in 1..Len(fileIds) |-> getCodeFile(fileIds[i], codeFiles) ]
           similar == findSimilarCode(prompt, MAX_SIMILAR_CHUNKS \div Len(files),
                                      answers, pinecone, structure.local,
                                      structure.store)
       IN  exchange' = [ NoExchange EXCEPT
                           !.route = "generate", !.fileIds = fileIds,
                           !.prompt = prompt, !.status = 200,
                           !.similarCode =
                             IF Len(fileIds) > 0
                             THEN SimilarCodeLoop(files, 1, similar, <<>>)
                             ELSE <<>> ]
  /\ UNCHANGED <<codeFiles, fileNameToId, fileVersions, handlers, events,
                 serviceVars, pureVars, raceVars>>

RoutesNext == PostInvalid \/ PostFiles \/ Generate

SpecRoutes == RoutesInit /\ [][RoutesNext]_vars

(***************************************************************************)
(* Properties of the chunker, the vectorizer and the scoring.              *)
(***************************************************************************)
\* the number of '\n'-separated segments of a text
LineCount(s) == Cardinality({ i \in 1..Len(s) : s[i] = NL }) + 1

ChunkLines(c) == c.endLine - c.startLine + 1

RECURSIVE Concat(_)
\* the elements of parts one after the other, nothing between them
Concat(parts) == IF Len(parts) = 0 THEN <<>> ELSE Head(parts) \o Concat(Tail(parts))

Contents(chunks) == [ j \in 1..Len(chunks) |-> chunks[j].content ]

\* C1: the line ranges of the chunks of a text of N lines partition 1..N in
\* order: the first starts at line 1, each next one starts right after the
\* previous one ends, the last ends at N, the sizes add up to N, no chunk has
\* more than chunkSize lines and only the last may have fewer.
C1_ChunksPartitionLines ==
  pc = "split" =>
    LET cs == chunksOut
        N  == LineCount(text)
    IN  /\ Len(cs) >= 1
        /\ cs[1].startLine = 1
        /\ \A j \in 2..Len(cs) : cs[j].startLine = cs[j - 1].endLine + 1
        /\ cs[Len(cs)].endLine = N
        /\ SumInts([ j \in 1..Len(cs) |-> ChunkLines(cs[j]) ]) = N
        /\ \A j \in 1..Len(cs) : ChunkLines(cs[j]) >= 1 /\ ChunkLines(cs[j]) <= chunkSize
        /\ \A j \in 1..(Len(cs) - 1) : ChunkLines(cs[j]) = chunkSize

\* a text of at least three chunks whose last chunk is short has been chunked
C1_Witness ==
  /\ pc = "split"
  /\ Len(chunksOut) >= 3
  /\ ChunkLines(chunksOut[Len(chunksOut)]) < chunkSize

\* C2 as stated: the chunk contents concatenated, nothing between them, are
\* the original text.
C2_ConcatReproducesText ==
  pc = "split" => Concat(Contents(chunksOut)) = text

\* C2 as amended: the chunk contents joined by one newline between consecutive
\* chunks are the original text.
C2_JoinReproducesText ==
  pc = "split" => Join(Contents(chunksOut), <<NL>>) = text

\* a text of several chunks, one of them with two non-empty lines, has been chunked
C2_Witness ==
  /\ pc = "split"
  /\ Len(chunksOut) >= 2
  /\ \E j \in 1..Len(chunksOut) : Len(chunksOut[j].content) >= 3

\* C4: generateSimpleEmbedding never raises and returns exactly `dimension`
\* entries.
C4_EmbeddingHasDimension ==
  pc = "embedded" => embOut.ok /\ Len(embOut.values) = dimension

\* C5: a text without any word character is vectorized to the all-zero vector.
C5_DegenerateIsZero ==
  (pc = "embedded" /\ \A i \in 1..Len(text) : ~IsWordChar(text[i]))
    => embOut.ok /\ embOut.values = ZeroVector

\* C18: in the set-overlap variant the similarity of two texts is 0 whenever
\* one of them has no word character (in particular when both are empty).
C18_DegenerateOverlapIsZero ==
  ( /\ pc = "overlapped"
    /\ \/ \A i \in 1..Len(text) : ~IsWordChar(text[i])
       \/ \A i \in 1..Len(text2) : ~IsWordChar(text2[i]) )
  => simOut.overlap = Num(Zero)

\* C6: in both cosine variants the score of the all-zero vector against any
\* vector of the same dimension is the number 0.
C6_ZeroVectorScoresZero ==
  (pc = "scored" /\ (v1 = ZeroVector \/ v2 = ZeroVector))
    => simOut.simple = Num(Zero) /\ simOut.model = Num(Zero)

(***************************************************************************)
(* Properties of the index.                                                *)
(***************************************************************************)
\* the chunks of the file of the call that completed last
LastChunks == splitIntoChunks(last.file.content, last.file.id)

\* C3: addToIndex of an empty file adds nothing to the in-memory list and
\* upserts nothing.
C3_EmptyFileAddsNothing ==
  (last.op = "add" /\ last.file.content = <<>>)
    => localChunks = last.localBefore /\ remote = last.remoteBefore

\* the j-th stored chunk as a result, with its similarity to the last query
HitOfStored(j) ==
  Hit(localChunks[j].fileId, localChunks[j].content,
      calculateSimilarity(generateSimpleEmbedding(last.query).values,
                          localChunks[j].embedding))

\* score a is strictly higher than score b
Higher(a, b) == a.kind = "num" /\ b.kind = "num" /\ RatLess(b.ssq, a.ssq)

\* C7: the local scan returns min(k, number of stored chunks) results, each a
\* stored chunk with its similarity (none more often than it is stored), in
\* non-increasing order of similarity, and every stored chunk scoring strictly
\* higher than a returned one is itself returned.
C7_LocalScanTopK ==
  (last.op = "find" /\ last.path \in {"local", "fallback"}) =>
    LET res    == last.result
        stored == 1..Len(localChunks)
        lowest == res[Len(res)].similarity
    IN  /\ Len(res) = Min(last.k, Len(localChunks))
        /\ \A i \in 1..Len(res) :
             /\ res[i].similarity.kind = "num"
             /\ Cardinality({ h \in 1..Len(res) : res[h] = res[i] })
                  <= Cardinality({ j \in stored : HitOfStored(j) = res[i] })
        /\ \A i \in 1..(Len(res) - 1) :
             ~Higher(res[i + 1].similarity, res[i].similarity)
        /\ Len(res) > 0 =>
             Cardinality({ j \in stored : Higher(HitOfStored(j).similarity, lowest) })
               = Cardinality({ i \in 1..Len(res) : Higher(res[i].similarity, lowest) })

\* a local scan for two results over at least three stored chunks, where the
\* best chunk is not the first stored one and scores higher than the second
C7_Witness ==
  /\ last.op = "find"
  /\ last.path = "local"
  /\ last.k = 2
  /\ Len(localChunks) >= 3
  /\ Len(last.result) = 2
  /\ Higher(last.result[1].similarity, last.result[2].similarity)
  /\ Higher(last.result[1].similarity, HitOfStored(1).similarity)

\* the contents of the chunks of the file the preceding addToIndex was given
AddedContents ==
  LET chunks == splitIntoChunks(last.after.file.content, last.after.file.id)
  IN  { chunks[j].content : j \in 1..Len(chunks) }

\* C8: with the API key configured and no remote operation succeeding,
\* findSimilarCode(file.content, k >= 1) right after addToIndex(file) returns a
\* chunk of that file, same fileId and content, as its first result.  (Stated
\* for an index that holds no chunk of an empty text and no other content
\* under the file's id.)
C8_FallbackReturnsIndexedFile ==
  ( /\ last.op = "find"
    /\ last.path \in {"local", "fallback"}
    /\ handshake # "absent"
    /\ remote = {}
    /\ last.k >= 1
    /\ last.after # NoAdd
    /\ last.query = last.after.file.content
    /\ \A j \in 1..Len(localChunks) :
         /\ localChunks[j].content # <<>>
         /\ localChunks[j].fileId = last.after.file.id
              => localChunks[j].content \in AddedContents )
  => /\ Len(last.result) >= 1
     /\ last.result[1].fileId = last.after.file.id
     /\ last.result[1].content \in AddedContents

\* C9: once clear() has returned on a populated index, and until the next
\* addToIndex, findSimilarCode returns the empty list.
C9_FindAfterClearIsEmpty ==
  (last.op = "find" /\ cleared.by # "none" /\ cleared.populated)
    => last.result = <<>>

\* C10: an addToIndex whose upsert raised completes normally with every chunk
\* of the file appended to the in-memory list, unless the vectorization of one
\* of the file's chunks raises in the local fallback; and an addToIndex raises
\* only in that case.
C10_UpsertFailureFallsBack ==
  last.op = "add" =>
    LET chunks == LastChunks
        embs   == [ j \in 1..Len(chunks) |-> generateSimpleEmbedding(chunks[j].content) ]
        allOk  == \A j \in 1..Len(chunks) : embs[j].ok
    IN  /\ (last.upsertFailed /\ allOk) =>
             /\ last.outcome = "ok"
             /\ localChunks = last.localBefore \o
                  [ j \in 1..Len(chunks) |-> WithEmbedding(chunks[j], embs[j].values) ]
        /\ last.outcome = "raised" => ~allOk

\* an addToIndex of a file of more than one batch whose first batch was
\* upserted and whose later upsert raised has completed normally
C10_Witness ==
  /\ last.op = "add"
  /\ last.upsertFailed
  /\ last.outcome = "ok"
  /\ Len(LastChunks) > batchSize
  /\ remote # last.remoteBefore
  /\ Len(localChunks) = Len(last.localBefore) + Len(LastChunks)

(***************************************************************************)
(* Properties of the backend state: which calls go to the remote backend.  *)
(***************************************************************************)
\* this step is a call of addToIndex, findSimilarCode or clear running to its
\* completion
CallCompletes == last.op = "none" /\ last'.op # "none"

\* C11: no upsert, query or delete-all is issued unless listIndexes has
\* already resolved: a call that runs while the handshake is pending, or after
\* it failed, makes no remote call.
C11_RemoteCallsOnlyAfterHandshake ==
  [][ (CallCompletes /\ last'.calls # <<>>) => handshake = "connected" ]_vars

\* the chunks of a file as the in-memory list holds them, each with its vector
Embedded(file) ==
  LET chunks == splitIntoChunks(file.content, file.id)
  IN  [ j \in 1..Len(chunks) |->
          WithEmbedding(chunks[j], generateSimpleEmbedding(chunks[j].content).values) ]

\* without the handle no step sets it
LocalOnlyStays == ~pinecone => ~pinecone'

\* without the handle a call makes no remote call and leaves the remote store
\* as it is
LocalOnlyMakesNoRemoteCall ==
  (~pinecone /\ CallCompletes) => last'.calls = <<>> /\ remote' = remote

\* without the handle addToIndex appends the chunks of its file to the
\* in-memory list
LocalOnlyAddStoresChunks ==
  (~pinecone /\ CallCompletes /\ last'.op = "add")
    => localChunks' = localChunks \o Embedded(last'.file)

\* C12: LocalOnly is terminal: once the handle is null (no API key, or reset
\* after a failed handshake) it stays null, no later addToIndex,
\* findSimilarCode or clear makes a remote call, and every addToIndex stores
\* the chunks of its file in the in-memory list.
C12_LocalOnlyIsTerminal ==
  [][ LocalOnlyStays /\ LocalOnlyMakesNoRemoteCall /\ LocalOnlyAddStoresChunks ]_vars

\* C13: after a remote operation has failed no later operation makes a remote
\* call.  Stated for the findSimilarCode that follows, with the handshake
\* completed, an addToIndex whose upsert raised or a clear() whose delete-all
\* raised: it makes no query.
C13_NoRemoteCallAfterFailure ==
  ( /\ last.op = "find"
    /\ handshake = "connected"
    /\ last.after.upsertFailed \/ cleared.by = "deleteFailed" )
  => last.calls = <<>>

\* calls c and d of one invocation have a vector id in common
SharesId(calls, c, d) ==
  \E x \in 1..Len(calls[c].ids), y \in 1..Len(calls[d].ids) :
    calls[c].ids[x] = calls[d].ids[y]

\* C14: no retries: of the remote calls of one invocation at most one failed,
\* it is the last one made, no vector is upserted by two of them, a
\* findSimilarCode or clear makes at most one remote call, and after a failed
\* upsert the local fallback runs once: the in-memory list grows by at most
\* the chunks of the file.
C14_NoRetries ==
  last.op # "none" =>
    LET calls  == last.calls
        failed == { c \in 1..Len(calls) : ~calls[c].ok }
    IN  /\ Cardinality(failed) <= 1
        /\ \A c \in failed : c = Len(calls)
        /\ \A c, d \in 1..Len(calls) : c # d => ~SharesId(calls, c, d)
        /\ last.op \in {"find", "clear"} => Len(calls) <= 1
        /\ (last.op = "add" /\ last.upsertFailed) =>
             /\ failed # {}
             /\ Len(localChunks) <= Len(last.localBefore) + Len(LastChunks)

\* an addToIndex whose first upsert was made and whose second upsert raised
\* has completed: no third remote call, every chunk in the in-memory list once
C14_Witness ==
  /\ last.op = "add"
  /\ Len(last.calls) = 2
  /\ last.calls[1].ok
  /\ ~last.calls[2].ok
  /\ Len(localChunks) = Len(last.localBefore) + Len(LastChunks)

\* the vector ids of the upserts of the completed call, in the order made
UpsertedIds == Concat([ c \in 1..Len(last.calls) |-> last.calls[c].ids ])

\* the upserts of one addToIndex come one batch after the other in increasing
\* chunk order: every call before the last one resolved, no batch has more
\* than batchSize chunks, and the ids are <fileId>-0, <fileId>-1, ... without
\* gap or repetition
UpsertsInChunkOrder ==
  (last.op = "add" /\ last.path = "remote") =>
    /\ \A c \in 1..Len(last.calls) :
         /\ last.calls[c].op = "upsert"
         /\ Len(last.calls[c].ids) >= 1
         /\ Len(last.calls[c].ids) <= batchSize
         /\ c < Len(last.calls) => last.calls[c].ok
    /\ UpsertedIds = [ p \in 1..Len(UpsertedIds) |-> <<last.file.id, p - 1>> ]

\* when no upsert fails every chunk of the file is upserted
AllUpsertedUnlessUpsertFails ==
  (last.op = "add" /\ last.path = "remote" /\ ~last.upsertFailed)
    => Len(UpsertedIds) = Len(LastChunks)

\* C15: on the remote path addToIndex upserts one batch at a time in
\* increasing chunk order, batch j+1 only after batch j resolved, every batch
\* of at most batchSize chunks, and when no upsert fails every chunk of the
\* file is upserted exactly once.
C15_SequentialBatches == UpsertsInChunkOrder /\ AllUpsertedUnlessUpsertFails

(***************************************************************************)
(* Properties of the stored entries.                                       *)
(***************************************************************************)
\* C16: addToIndex never removes or replaces a stored entry: the in-memory
\* list before the call is a prefix of the list after it, every vector the
\* remote store held is still held, and neither holds fewer entries.
C16_AddToIndexIsAdditive ==
  last.op = "add" =>
    /\ Len(localChunks) >= Len(last.localBefore)
    /\ SubSeq(localChunks, 1, Len(last.localBefore)) = last.localBefore
    /\ Cardinality(remote) >= Cardinality(last.remoteBefore)
    /\ last.remoteBefore \subseteq remote

\* C17: findSimilarCode never raises: when the remote query raises the result
\* is that of the local scan, when the vectorization of the query raises the
\* result is the empty list, and in both cases and every other the in-memory
\* list and the remote store are left as they were.
C17_FindNeverRaises ==
  last.op = "find" =>
    LET q == generateSimpleEmbedding(last.query)
        queryRaised == \E c \in 1..Len(last.calls) : ~last.calls[c].ok
    IN  /\ last.outcome = "ok"
        /\ localChunks = last.localBefore
        /\ remote = last.remoteBefore
        /\ ~q.ok => last.result = <<>> /\ last.calls = <<>>
        /\ queryRaised => q.ok /\ last.result = LocalScan(q.values, localChunks, last.k)

\* a findSimilarCode whose query text could not be vectorized has completed
\* on an engine with the handle set and both stores populated
C17_Witness ==
  /\ last.op = "find"
  /\ last.path = "error"
  /\ ~generateSimpleEmbedding(last.query).ok
  /\ pinecone
  /\ localChunks # <<>>
  /\ remote # {}

(***************************************************************************)
(* Properties of calls in flight together.                                 *)
(***************************************************************************)
\* C19: clear() and addToIndex interleave on the in-memory list: what is left
\* of the entries the addToIndex has pushed is those pushed after the reset,
\* a suffix of them of any length (so also some but not all of the chunks of
\* the file, see the witness); until the reset the list holds them all.
C19_ClearDropsPushedPrefix ==
  LET pushed == addTask.appended
  IN  /\ clearTask # "done" => localChunks = pushed
      /\ clearTask = "done" =>
           \E n \in 0..Len(pushed) : localChunks = SubSeq(pushed, n + 1, Len(pushed))

\* both calls have completed, the addToIndex normally and for a file of
\* several chunks, and the in-memory list holds some but not all of them
C19_Witness ==
  /\ addTask.at = "done"
  /\ clearTask = "done"
  /\ Len(Embedded(addTask.file)) >= 2
  /\ localChunks # <<>>
  /\ Len(localChunks) < Len(Embedded(addTask.file))
  /\ \A j \in 1..Len(localChunks) :
       \E h \in 1..Len(Embedded(addTask.file)) : localChunks[j] = Embedded(addTask.file)[h]

(***************************************************************************)
(* Properties of what is stored where and of what a search considers.      *)
(***************************************************************************)
\* the number of entries of a sequence of chunks or results with that fileId
CountOfFile(entries, fileId) ==
  Cardinality({ j \in 1..Len(entries) : entries[j].fileId = fileId })

\* C21: the local scan applies no per-file deduplication: the chunks of a file
\* are left out of a result list only for chunks of other files or for the
\* limit k, so that a list for k >= 2 can hold two entries of one fileId.
C21_NoPerFileDedup ==
  (last.op = "find" /\ last.path \in {"local", "fallback"}) =>
    \A fileId \in FileIds :
      CountOfFile(last.result, fileId)
        + (Len(localChunks) - CountOfFile(localChunks, fileId))
        >= Min(last.k, Len(localChunks))

\* a local scan for k >= 2 over the chunks of a file of more than chunkSize
\* lines has returned two entries with that file's id
C21_Witness ==
  /\ last.op = "find"
  /\ last.path = "local"
  /\ last.k >= 2
  /\ \E fileId \in FileIds :
       /\ CountOfFile(last.result, fileId) >= 2
       /\ \E j \in 1..Len(localChunks) :
            localChunks[j].fileId = fileId /\ localChunks[j].startLine > chunkSize

\* the metadata sent with the chunk
MetadataOf(chunk) ==
  [ fileId |-> chunk.fileId, content |-> chunk.content,
    startLine |-> chunk.startLine, endLine |-> chunk.endLine ]

\* C22: within one addToIndex no two upserted vectors share an id: the p-th
\* vector upserted (from 0, across all batches) has the id <fileId>-<p>, and
\* what the remote store holds under that id once its upsert has resolved is
\* the metadata and the vector of the chunk at position p.
C22_VectorIdsAreChunkPositions ==
  (last.op = "add" /\ last.path = "remote") =>
    LET chunks == LastChunks
        ids    == UpsertedIds
        stored == Concat([ c \in 1..Len(last.calls) |->
                             IF last.calls[c].ok THEN last.calls[c].ids ELSE <<>> ])
    IN  /\ Len(ids) <= Len(chunks)
        /\ \A p, q \in 1..Len(ids) : p # q => ids[p] # ids[q]
        /\ \A p \in 1..Len(ids) : ids[p] = <<last.file.id, p - 1>>
        /\ \A p \in 1..Len(stored) :
             \E r \in remote :
               /\ r.id = <<last.file.id, p - 1>>
               /\ r.metadata = MetadataOf(chunks[p])
               /\ r.values = generateSimpleEmbedding(chunks[p].content).values

\* an addToIndex of a file of more than one batch has upserted every chunk
C22_Witness ==
  /\ last.op = "add"
  /\ last.path = "remote"
  /\ last.outcome = "ok"
  /\ ~last.fellBack
  /\ Len(last.calls) >= 2
  /\ Len(UpsertedIds) = Len(LastChunks)

\* the results of a findSimilarCode hold the stored entry (chunk or vector
\* metadata) with that fileId and content
Returned(fileId, content) ==
  \E i \in 1..Len(last.result) :
    last.result[i].fileId = fileId /\ last.result[i].content = content

\* C26: every chunk a completed addToIndex stored, in the in-memory list or in
\* the remote store, is a candidate of a later findSimilarCode, also of one
\* the remote backend answers: when k is at least the number of stored
\* entries, every entry is among the results.  (Stated for a query answered
\* with its matches after the handshake has completed.)
C26_EveryStoredChunkIsCandidate ==
  ( /\ last.op = "find"
    /\ last.path = "remote"
    /\ handshake = "connected"
    /\ last.result = RemoteMatches(generateSimpleEmbedding(last.query).values,
                                   remote, last.k)
    /\ last.k >= Len(localChunks) + Cardinality(remote) )
  => /\ \A j \in 1..Len(localChunks) :
          Returned(localChunks[j].fileId, localChunks[j].content)
     /\ \A r \in remote : Returned(r.metadata.fileId, r.metadata.content)

\* the number of chunks at position p of the file that the addToIndex which
\* completed last put into the in-memory list
TimesAppended(p) ==
  Cardinality({ j \in (Len(last.localBefore) + 1)..Len(localChunks) :
                  localChunks[j].startLine = LastChunks[p].startLine })

\* whether that addToIndex upserted the chunk at position p
TimesUpserted(p) ==
  Cardinality({ c \in 1..Len(last.calls) :
                  /\ last.calls[c].ok
                  /\ \E x \in 1..Len(last.calls[c].ids) :
                       last.calls[c].ids[x] = <<last.file.id, p - 1>> })

\* C27: a completed addToIndex has stored each chunk of its file exactly once
\* across the two backends.  (Stated for files all of whose chunks can be
\* vectorized.)
C27_EachChunkStoredOnce ==
  ( /\ last.op = "add"
    /\ \A p \in 1..Len(LastChunks) : generateSimpleEmbedding(LastChunks[p].content).ok )
  => \A p \in 1..Len(LastChunks) : TimesAppended(p) + TimesUpserted(p) = 1

\* C28: when addToIndex raises to its caller the in-memory list is what it
\* was before the call.
C28_RaisingAddLeavesListUnchanged ==
  (last.op = "add" /\ last.outcome = "raised") => localChunks = last.localBefore

(***************************************************************************)
(* Properties of the file watcher.                                         *)
(***************************************************************************)
\* the handling of the update has passed the hash check and has not ended
InFlight(h) == h.pc \in { "found", "updating", "stored", "indexed" }

\* the handling has written no file, called no addToIndex and broadcast nothing
NoEffect(h) == ~h.wrote /\ h.indexed = "no" /\ h.sent = NoMessage

\* an update whose hash is the one the watcher remembers for its name has no
\* effect (the part of C23 about messages that arrive one after the other)
SkipsWhenHashRemembered ==
  \A n \in 1..Len(handlers) :
    handlers[n].seen = handlers[n].update.hash =>
      handlers[n].pc = "skipped" /\ NoEffect(handlers[n])

\* C23: an update with the name and the hash of the update handled last for
\* that name causes no storage write, no addToIndex and no broadcast, also
\* when it arrives while the handling of the first one is still in flight.
C23_SameHashIsSkipped ==
  \A i, j \in 1..Len(handlers) :
    ( /\ i < j
      /\ handlers[i].update.name = handlers[j].update.name
      /\ handlers[i].update.hash = handlers[j].update.hash
      /\ InFlight(handlers[i]) \/ handlers[i].pc = "done"
      /\ \A m \in (i + 1)..(j - 1) :
           handlers[m].update.name # handlers[i].update.name )
    => NoEffect(handlers[j])

\* the handling of an update that passed the hash check has ended
Processed(h) == h.pc \in { "done", "failed" }

\* C24: every update that is processed is broadcast exactly once, after the
\* storage write and the indexing: FILE_ADDED with version 1 if and only if
\* no stored file had its name, else FILE_UPDATED with the id of that file
\* and the version the file had plus one.
C24_OneBroadcastPerUpdate ==
  /\ Len(events) = Cardinality({ n \in 1..Len(handlers) : Processed(handlers[n]) })
  /\ \A n \in 1..Len(handlers) :
       Processed(handlers[n]) =>
         LET h == handlers[n]
         IN  /\ h.wrote /\ h.indexed = "ok"
             /\ h.sent \in { events[e] : e \in 1..Len(events) }
             /\ h.sent.type = (IF h.hadName THEN "FILE_UPDATED" ELSE "FILE_ADDED")
             /\ h.sent.hash = h.update.hash
             /\ ~h.hadName => h.sent.version = 1
             /\ h.hadName =>
                  /\ h.sent.fileId \in StoredNamed(h.update.name, codeFiles)
                  /\ h.sent.version = h.previous + 1

\* the same, of the updates that arrived while no handling was in flight and
\* whose indexing did not raise
C24_UndisturbedUpdates ==
  (\A m \in 1..Len(handlers) : handlers[m].alone)
  => \A n \in 1..Len(handlers) :
       handlers[n].pc = "done" =>
         LET h == handlers[n]
         IN  /\ h.wrote /\ h.indexed = "ok"
             /\ h.sent \in { events[e] : e \in 1..Len(events) }
             /\ h.sent.type = (IF h.hadName THEN "FILE_UPDATED" ELSE "FILE_ADDED")
             /\ ~h.hadName => h.sent.version = 1
             /\ h.hadName =>
                  /\ h.sent.fileId \in StoredNamed(h.update.name, codeFiles)
                  /\ h.sent.version = h.previous + 1
(***************************************************************************)
(* Properties of the routes.                                               *)
(***************************************************************************)
\* C25: POST /api/files with a valid body stores the file and responds with
\* the stored file, also when addToIndex raises: the failure of the indexing
\* neither fails the request nor removes the stored file.
C25_PostSurvivesIndexingFailure ==
  (exchange.route = "post" /\ exchange.valid) =>
    /\ exchange.status = 200
    /\ exchange.file.id \in 1..Len(codeFiles)
    /\ codeFiles[exchange.file.id] = exchange.file
    /\ exchange.file.name = exchange.body.name
    /\ exchange.file.content = exchange.body.content
    /\ exchange.file.version = 1

C25_Witness ==
  /\ exchange.route = "post" /\ exchange.valid
  /\ exchange.indexing = "raised"
  /\ exchange.status = 200
  /\ exchange.file.id \in 1..Len(codeFiles)
  /\ codeFiles[exchange.file.id] = exchange.file

\* the ids in req.body.fileIds
Requested == { exchange.fileIds[i] : i \in 1..Len(exchange.fileIds) }

\* C29: in the generate route every snippet of similar code placed in the
\* context belongs to one of the files named in the request's fileIds,
\* whatever other files are in the index.
C29_SnippetsBelongToRequestedFiles ==
  exchange.route = "generate" =>
    \A i \in 1..Len(exchange.similarCode) :
      exchange.similarCode[i].fileId \in Requested

====
